---- MODULE Spec2Model ----
(***************************************************************************)
(* Model of Complix/app.py: the GST calculator, the in-memory invoice      *)
(* manager, the Groq-backed insight call and the Streamlit script `main`.  *)
(*                                                                         *)
(* Money is counted in paise (1/100 rupee); the amounts entered are whole  *)
(* rupees, so every product base * rate is exact.  A rate fraction such as *)
(* 0.18 is kept as its number of hundredths, 18.  Python dicts are         *)
(* functions from keys to values kept in `heap` and named by reference, so *)
(* that two names for one dict, or for one list, are visible.              *)
(***************************************************************************)
EXTENDS Integers, Sequences, FiniteSets, TLC

VARIABLES
    session_state,  \* st.session_state: key -> object
    heap,           \* the dicts ever created; a reference is an index
    lists,          \* the Python lists ever created; a list id is an index
    now,            \* the wall clock read by datetime.now(), in seconds
    call,           \* the last operation and its arguments
    result,         \* what that operation returned or rendered
    exc,            \* the exception it raised, "none" if it returned
    returned        \* the list a caller holds from get_all_invoices, 0 if none

vars == <<session_state, heap, lists, now, call, result, exc, returned>>

(* Bounds *)
MaxInvoices == 3
MaxClock == 1

(* Inputs *)
Rupees(n) == n * 100
UiAmounts == {Rupees(0), Rupees(1000)}
CalculatorAmounts == UiAmounts \cup {Rupees(1)}
CallerAmounts == {Rupees(-1), Rupees(1000)}
CallerRates == {"18%", "7%"}
InvoiceNumbers == {"A-001"}
CustomerNames == {"Asha Traders"}
InvoiceDates == {"2024-04-01"}
FormRates == {"5%", "18%"}
GroqOutcomes == {"ok", "APIConnectionError", "RateLimitError"}

NoResult == [kind |-> "none"]

(***************************************************************************)
(* GSTCalculator                                                           *)
(***************************************************************************)
gst_rates ==
    ("0%" :> 0) @@ ("5%" :> 5) @@ ("12%" :> 12) @@ ("18%" :> 18) @@ ("28%" :> 28)

GSTCalculator == [gst_rates |-> gst_rates]

\* Faulty variant: the tax is subtracted from the base amount.
calculate_gst_minus(self, base_amount, rate) ==
    IF rate \notin DOMAIN self.gst_rates
    THEN [exc |-> "KeyError", value |-> NoResult]
    ELSE LET gst_amount == (base_amount * self.gst_rates[rate]) \div 100
             total_amount == base_amount - gst_amount
         IN  [exc |-> "none",
              value |-> [base_amount |-> base_amount,
                         gst_amount |-> gst_amount,
                         total_amount |-> total_amount]]

\* self.gst_rates[rate] raises KeyError for an unknown label; nothing looks
\* at the sign of base_amount.
calculate_gst(self, base_amount, rate) ==
    IF rate \notin DOMAIN self.gst_rates
    THEN [exc |-> "KeyError", value |-> NoResult]
    ELSE LET gst_amount == (base_amount * self.gst_rates[rate]) \div 100
             total_amount == base_amount + gst_amount
         IN  [exc |-> "none",
              value |-> [base_amount |-> base_amount,
                         gst_amount |-> gst_amount,
                         total_amount |-> total_amount]]

(***************************************************************************)
(* InvoiceManager                                                          *)
(***************************************************************************)
\* d[k] = v on a dict: the key is added or overwritten.
DictSet(d, k, v) == [x \in DOMAIN d \cup {k} |-> IF x = k THEN v ELSE d[x]]

\* datetime.now().strftime("%Y-%m-%d %H:%M:%S"): the clock to the second.
strftime(t) == "t+" \o ToString(t)

\* InvoiceManager.__init__: self.invoices = [] is a new list.
InvoiceManager(ls) == [self |-> [invoices |-> Len(ls) + 1], lists |-> Append(ls, <<>>)]

\* add_invoice writes the two keys into the caller's dict and appends that
\* same dict; it validates nothing and computes no tax.
add_invoice(self, invoice_data, hp, ls, t) ==
    LET d1 == DictSet(hp[invoice_data], "invoice_id",
                      "INV-" \o ToString(Len(ls[self.invoices]) + 1))
        d2 == DictSet(d1, "timestamp", strftime(t))
    IN  [heap |-> [hp EXCEPT ![invoice_data] = d2],
         lists |-> [ls EXCEPT ![self.invoices] = Append(@, invoice_data)]]

\* get_all_invoices returns self.invoices itself, not a copy.
get_all_invoices(self) == self.invoices

\* The records a list holds, in order.
Records(hp, ls, id) == [i \in 1..Len(ls[id]) |-> hp[ls[id][i]]]

(***************************************************************************)
(* get_ai_insights                                                         *)
(***************************************************************************)
\* A Python str, as the pieces it is put together from.
Str(pieces) == [kind |-> "str", text |-> pieces]

\* Faulty variant: the call is made outside any try block.
get_ai_insights_no_try(invoice_data, outcome) ==
    IF outcome = "ok"
    THEN [exc |-> "none", value |-> Str(<<"response.choices[0].message.content">>)]
    ELSE [exc |-> outcome, value |-> NoResult]

\* `outcome` is what client.chat.completions.create does: it returns ("ok")
\* or raises the named exception, which `except Exception` turns into text.
get_ai_insights(invoice_data, outcome) ==
    IF outcome = "ok"
    THEN [exc |-> "none", value |-> Str(<<"response.choices[0].message.content">>)]
    ELSE [exc |-> "none", value |-> Str(<<"Error getting AI insights: ", outcome>>)]

(***************************************************************************)
(* main: one run of the script                                             *)
(***************************************************************************)
\* Faulty variant: the objects are built on every run of the script.
init_session_state_every_run(ss, ls) ==
    LET m == InvoiceManager(ls)
    IN  [session_state |-> [k \in {"calculator", "invoice_manager"} |->
                               IF k = "calculator" THEN GSTCalculator ELSE m.self],
         lists |-> m.lists]

\* "Initialize session state": each object is built only if its key is absent.
init_session_state(ss, ls) ==
    LET ss1 == IF "calculator" \in DOMAIN ss
               THEN ss ELSE DictSet(ss, "calculator", GSTCalculator)
        m   == InvoiceManager(ls)
    IN  IF "invoice_manager" \in DOMAIN ss1
        THEN [session_state |-> ss1, lists |-> ls]
        ELSE [session_state |-> DictSet(ss1, "invoice_manager", m.self),
              lists |-> m.lists]

\* The options of both rate selectboxes: list(calculator.gst_rates.keys()).
RateOptions(ss) == DOMAIN ss["calculator"].gst_rates

\* pd.DataFrame(records)[column] for the rows that have the column.
Column(rows, column) == [i \in 1..Len(rows) |-> rows[i][column]]

\* Faulty variant: the sum skips the first row.
SeriesSum_skip_first(series) ==
    LET F[i \in 0..Len(series)] == IF i <= 1 THEN 0 ELSE F[i - 1] + series[i]
    IN  F[Len(series)]

\* Series.sum()
SeriesSum(series) ==
    LET F[i \in 0..Len(series)] == IF i = 0 THEN 0 ELSE F[i - 1] + series[i]
    IN  F[Len(series)]

\* Series.mean(): the sum over the number of rows, to the paisa.
SeriesMean(series) == SeriesSum(series) \div Len(series)

\* Series.value_counts(): each value that occurs, with its number of rows.
value_counts(series) ==
    [v \in {series[i] : i \in 1..Len(series)} |->
        Cardinality({i \in 1..Len(series) : series[i] = v})]

Init ==
    /\ session_state = <<>>
    /\ heap = <<>>
    /\ lists = <<>>
    /\ now = 0
    /\ call = [op |-> "start"]
    /\ result = NoResult
    /\ exc = "none"
    /\ returned = 0

\* The clock moves on between two runs.
Tick ==
    /\ now < MaxClock
    /\ now' = now + 1
    /\ UNCHANGED <<session_state, heap, lists, call, result, exc, returned>>

\* page == "GST Calculator"
PageGSTCalculator ==
    \E base_amount \in CalculatorAmounts, clicked \in BOOLEAN :
      LET s == init_session_state(session_state, lists) IN
      \E gst_rate \in RateOptions(s.session_state) :
        LET r == calculate_gst(s.session_state["calculator"], base_amount, gst_rate) IN
        /\ session_state' = s.session_state
        /\ lists' = s.lists
        /\ call' = IF clicked
                   THEN [op |-> "GST Calculator", clicked |-> TRUE,
                         base_amount |-> base_amount, gst_rate |-> gst_rate]
                   ELSE [op |-> "GST Calculator", clicked |-> FALSE]
        /\ result' = IF clicked THEN r.value ELSE NoResult
        /\ exc' = IF clicked THEN r.exc ELSE "none"
        /\ UNCHANGED <<heap, now, returned>>

\* page == "Invoice Management"
PageInvoiceManagement ==
    \E invoice_number \in InvoiceNumbers, customer_name \in CustomerNames,
       invoice_date \in InvoiceDates, base_amount \in UiAmounts, clicked \in BOOLEAN :
      LET s == init_session_state(session_state, lists) IN
      \E gst_rate \in RateOptions(s.session_state) \cap FormRates :
        LET manager == s.session_state["invoice_manager"]
            invoice_data == [invoice_number |-> invoice_number,
                             customer_name |-> customer_name,
                             invoice_date |-> invoice_date,
                             base_amount |-> base_amount,
                             gst_rate |-> gst_rate]
            ref == Len(heap) + 1
            a == IF clicked
                 THEN add_invoice(manager, ref, Append(heap, invoice_data), s.lists, now)
                 ELSE [heap |-> heap, lists |-> s.lists]
            invoices_df == Records(a.heap, a.lists, get_all_invoices(manager))
        IN  /\ clicked => Len(heap) < MaxInvoices
            /\ session_state' = s.session_state
            /\ heap' = a.heap
            /\ lists' = a.lists
            /\ call' = IF clicked
                       THEN [op |-> "Invoice Management", clicked |-> TRUE,
                             invoice_data |-> ref]
                       ELSE [op |-> "Invoice Management", clicked |-> FALSE]
            /\ result' = IF Len(invoices_df) > 0
                         THEN [kind |-> "dataframe", rows |-> invoices_df]
                         ELSE [kind |-> "info"]
            /\ exc' = "none"
            /\ UNCHANGED <<now, returned>>

\* page == "Reports & Analytics"
PageReports ==
    LET s == init_session_state(session_state, lists)
        invoices == get_all_invoices(s.session_state["invoice_manager"])
        df == Records(heap, s.lists, invoices)
    IN  /\ session_state' = s.session_state
        /\ lists' = s.lists
        /\ call' = [op |-> "Reports & Analytics"]
        /\ result' = IF Len(s.lists[invoices]) > 0
                     THEN [kind |-> "report",
                           count |-> Len(df),
                           total_amount |-> SeriesSum(Column(df, "base_amount")),
                           avg_amount |-> SeriesMean(Column(df, "base_amount")),
                           gst_dist |-> value_counts(Column(df, "gst_rate"))]
                     ELSE [kind |-> "info"]
        /\ exc' = "none"
        /\ UNCHANGED <<heap, now, returned>>

\* page == "AI Insights"
PageAIInsights ==
    \E clicked \in BOOLEAN, outcome \in GroqOutcomes :
      LET s == init_session_state(session_state, lists)
          invoices == get_all_invoices(s.session_state["invoice_manager"])
          shown == Len(s.lists[invoices]) > 0
          r == get_ai_insights(Records(heap, s.lists, invoices), outcome)
      IN  /\ session_state' = s.session_state
          /\ lists' = s.lists
          /\ call' = IF shown /\ clicked
                     THEN [op |-> "AI Insights", clicked |-> TRUE, outcome |-> outcome]
                     ELSE [op |-> "AI Insights", clicked |-> FALSE]
          /\ result' = IF ~shown THEN [kind |-> "info"]
                       ELSE IF clicked THEN r.value ELSE NoResult
          /\ exc' = IF shown /\ clicked THEN r.exc ELSE "none"
          /\ UNCHANGED <<heap, now, returned>>

Next ==
    \/ Tick
    \/ PageGSTCalculator
    \/ PageInvoiceManagement
    \/ PageReports
    \/ PageAIInsights

Spec == Init /\ [][Next]_vars

(***************************************************************************)
(* The classes called directly, by code other than main                    *)
(***************************************************************************)
\* calculator = GSTCalculator(); invoice_manager = InvoiceManager()
InitCaller ==
    LET s == init_session_state(<<>>, <<>>)
    IN  /\ session_state = s.session_state
        /\ heap = <<>>
        /\ lists = s.lists
        /\ now = 0
        /\ call = [op |-> "start"]
        /\ result = NoResult
        /\ exc = "none"
        /\ returned = 0

invoice_manager == session_state["invoice_manager"]

\* calculator.calculate_gst(base_amount, rate)
CallCalculateGst ==
    \E base_amount \in CallerAmounts, rate \in CallerRates :
      LET r == calculate_gst(session_state["calculator"], base_amount, rate) IN
      /\ call' = [op |-> "calculate_gst", base_amount |-> base_amount, rate |-> rate]
      /\ result' = r.value
      /\ exc' = r.exc
      /\ UNCHANGED <<session_state, heap, lists, now, returned>>

\* invoice_manager.add_invoice({...}) with a dict built for the call
CallAddInvoice ==
    \E invoice_number \in InvoiceNumbers, customer_name \in CustomerNames,
       invoice_date \in InvoiceDates, base_amount \in CallerAmounts,
       gst_rate \in CallerRates :
      LET invoice_data == [invoice_number |-> invoice_number,
                           customer_name |-> customer_name,
                           invoice_date |-> invoice_date,
                           base_amount |-> base_amount,
                           gst_rate |-> gst_rate]
          ref == Len(heap) + 1
          a == add_invoice(invoice_manager, ref, Append(heap, invoice_data), lists, now)
      IN  /\ Len(heap) < MaxInvoices
          /\ Len(lists[invoice_manager.invoices]) < MaxInvoices
          /\ heap' = a.heap
          /\ lists' = a.lists
          /\ call' = [op |-> "add_invoice", invoice_data |-> ref, fresh |-> TRUE,
                      base_amount |-> base_amount, gst_rate |-> gst_rate]
          /\ result' = NoResult
          /\ exc' = "none"
          /\ UNCHANGED <<session_state, now, returned>>

\* invoice_manager.add_invoice(d) with a dict d that was passed before
CallAddInvoiceAgain ==
    \E ref \in DOMAIN heap :
      LET a == add_invoice(invoice_manager, ref, heap, lists, now) IN
      /\ Len(lists[invoice_manager.invoices]) < MaxInvoices
      /\ heap' = a.heap
      /\ lists' = a.lists
      /\ call' = [op |-> "add_invoice", invoice_data |-> ref, fresh |-> FALSE,
                  base_amount |-> heap[ref]["base_amount"],
                  gst_rate |-> heap[ref]["gst_rate"]]
      /\ result' = NoResult
      /\ exc' = "none"
      /\ UNCHANGED <<session_state, now, returned>>

\* seq = invoice_manager.get_all_invoices()
CallGetAllInvoices ==
    LET seq == get_all_invoices(invoice_manager) IN
    /\ returned' = seq
    /\ call' = [op |-> "get_all_invoices"]
    /\ result' = [kind |-> "list", records |-> Records(heap, lists, seq)]
    /\ exc' = "none"
    /\ UNCHANGED <<session_state, heap, lists, now>>

\* seq.append(d)
CallerAppend ==
    \E ref \in DOMAIN heap :
      /\ returned # 0
      /\ Len(lists[returned]) < MaxInvoices
      /\ lists' = [lists EXCEPT ![returned] = Append(@, ref)]
      /\ call' = [op |-> "seq.append"]
      /\ result' = NoResult
      /\ exc' = "none"
      /\ UNCHANGED <<session_state, heap, now, returned>>

\* seq.pop(i)
CallerRemove ==
    \E i \in 1..MaxInvoices :
      /\ returned # 0
      /\ i <= Len(lists[returned])
      /\ lists' = [lists EXCEPT ![returned] =
                      SubSeq(@, 1, i - 1) \o SubSeq(@, i + 1, Len(@))]
      /\ call' = [op |-> "seq.pop"]
      /\ result' = NoResult
      /\ exc' = "none"
      /\ UNCHANGED <<session_state, heap, now, returned>>

\* seq.reverse()
CallerReorder ==
    /\ returned # 0
    /\ lists' = [lists EXCEPT ![returned] =
                    [i \in 1..Len(@) |-> @[Len(@) + 1 - i]]]
    /\ call' = [op |-> "seq.reverse"]
    /\ result' = NoResult
    /\ exc' = "none"
    /\ UNCHANGED <<session_state, heap, now, returned>>

\* get_ai_insights(invoice_manager.get_all_invoices())
CallGetAiInsights ==
    \E outcome \in GroqOutcomes :
      LET r == get_ai_insights(
                   Records(heap, lists, get_all_invoices(invoice_manager)), outcome)
      IN  /\ call' = [op |-> "get_ai_insights", outcome |-> outcome]
          /\ result' = r.value
          /\ exc' = r.exc
          /\ UNCHANGED <<session_state, heap, lists, now, returned>>

\* The calls below are made within one second of the clock: no Tick.
NextCaller ==
    \/ CallCalculateGst
    \/ CallAddInvoice
    \/ CallAddInvoiceAgain
    \/ CallGetAllInvoices
    \/ CallerAppend
    \/ CallerRemove
    \/ CallerReorder
    \/ CallGetAiInsights

CallerSpec == InitCaller /\ [][NextCaller]_vars

(***************************************************************************)
(* Properties                                                              *)
(***************************************************************************)
\* The rate labels of the specification and the percentage each one names.
RateLabels == {"0%", "5%", "12%", "18%", "28%"}
LabelPercent(label) ==
    CASE label = "0%" -> 0
      [] label = "5%" -> 5
      [] label = "12%" -> 12
      [] label = "18%" -> 18
      [] label = "28%" -> 28

\* The session's ledger: the references the manager's list holds, and the
\* records get_all_invoices lets a reader see.
Ledger ==
    IF "invoice_manager" \in DOMAIN session_state
    THEN lists[session_state["invoice_manager"].invoices] ELSE <<>>
Listing == [k \in 1..Len(Ledger) |-> heap[Ledger[k]]]

\* Every stored record has a non-negative base amount and an enumerated rate.
ValidLedger ==
    \A k \in 1..Len(Ledger) :
        Listing[k]["base_amount"] >= 0 /\ Listing[k]["gst_rate"] \in RateLabels

RECURSIVE SumBase(_)
SumBase(records) ==
    IF records = <<>> THEN 0
    ELSE Head(records)["base_amount"] + SumBase(Tail(records))

RECURSIVE SumCounts(_, _)
SumCounts(dist, labels) ==
    IF labels = {} THEN 0
    ELSE LET l == CHOOSE x \in labels : TRUE
         IN  dist[l] + SumCounts(dist, labels \ {l})

\* C1: for a non-negative base amount and a rate label of the enumerated set,
\* calculate_gst returns the base amount it was given, a GST amount of
\* base * rate / 100 and a total of base + GST.
C1_CalculateGst ==
    (/\ call.op = "GST Calculator"
     /\ call.clicked
     /\ call.base_amount >= 0
     /\ call.gst_rate \in RateLabels)
    => /\ exc = "none"
       /\ result.base_amount = call.base_amount
       /\ result.gst_amount * 100 = call.base_amount * LabelPercent(call.gst_rate)
       /\ result.total_amount = call.base_amount + result.gst_amount

C1_Witness ==
    /\ call.op = "GST Calculator"
    /\ call.clicked
    /\ call.base_amount = Rupees(1000)
    /\ call.gst_rate = "18%"
    /\ result.gst_amount = Rupees(180)
    /\ result.total_amount = Rupees(1180)

\* C2: after N add_invoice calls (with valid inputs) on an empty ledger that
\* nothing else has touched, the ledger holds the dicts in the order they were
\* passed and the k-th record carries invoice_id "INV-k".
C2_SequentialIds ==
    (returned = 0 /\ call.op = "add_invoice" /\ ValidLedger)
    => /\ Ledger[Len(Ledger)] = call.invoice_data
       /\ \A k \in 1..Len(Ledger) : Listing[k]["invoice_id"] = "INV-" \o ToString(k)

\* C3: every stored record carries a gst_amount of base_amount * rate / 100
\* and a total_amount of base_amount + gst_amount.
C3_StoredTax ==
    \A k \in 1..Len(Ledger) :
        /\ "gst_amount" \in DOMAIN Listing[k]
        /\ "total_amount" \in DOMAIN Listing[k]
        /\ Listing[k]["gst_amount"] * 100
             = Listing[k]["base_amount"] * LabelPercent(Listing[k]["gst_rate"])
        /\ Listing[k]["total_amount"]
             = Listing[k]["base_amount"] + Listing[k]["gst_amount"]

\* C4: a caller's append to, removal from or reordering of the sequence that
\* get_all_invoices returned leaves what get_all_invoices returns unchanged.
C4_Snapshot ==
    [][(call'.op \in {"seq.append", "seq.pop", "seq.reverse"} /\ ValidLedger)
       => Listing' = Listing]_vars

\* C5: add_invoice with a negative base amount or a rate outside the
\* enumerated set fails with InvalidAmount or InvalidRate and leaves the
\* ledger as it was.
C5_AddRejectsInvalid ==
    [][(/\ call'.op = "add_invoice"
        /\ (call'.base_amount < 0 \/ call'.gst_rate \notin RateLabels))
       => /\ exc' \in {"InvalidAmount", "InvalidRate"}
          /\ call'.base_amount >= 0 => exc' = "InvalidRate"
          /\ call'.gst_rate \in RateLabels => exc' = "InvalidAmount"
          /\ Listing' = Listing]_vars

\* The error kind of the specification that a Python exception stands for.
ErrorKind(e) == IF e = "KeyError" THEN "InvalidRate" ELSE e

\* C6: calculate_gst fails with InvalidRate for a rate outside the enumerated
\* set and with InvalidAmount for a negative base amount.
C6_CalculateRejectsInvalid ==
    call.op = "calculate_gst"
    => /\ call.rate \notin RateLabels => ErrorKind(exc) = "InvalidRate"
       /\ (call.rate \in RateLabels /\ call.base_amount < 0)
            => ErrorKind(exc) = "InvalidAmount"

\* C7: after any sequence of add_invoice calls with valid inputs, the same
\* dict passed twice included, the stored invoice_ids are pairwise distinct and an invoice_id,
\* once assigned, never changes.
C7_UniqueStableIds ==
    [][(returned' = 0 /\ ValidLedger')
       => /\ \A i, j \in 1..Len(Ledger') :
                i # j => Listing'[i]["invoice_id"] # Listing'[j]["invoice_id"]
          /\ \A ref \in DOMAIN heap :
                "invoice_id" \in DOMAIN heap[ref]
                => heap'[ref]["invoice_id"] = heap[ref]["invoice_id"]]_vars

\* C8: for a non-empty ledger the report's count is the number of stored
\* records, its total the sum of their base amounts, its average that total
\* over the count (to the paisa), and its rate distribution maps each label
\* that occurs to its number of records; those numbers add up to the count.
C8_Report ==
    (call.op = "Reports & Analytics" /\ Len(Ledger) > 0)
    => /\ result.kind = "report"
       /\ result.count = Len(Ledger)
       /\ result.total_amount = SumBase(Listing)
       /\ result.count * result.avg_amount <= result.total_amount
       /\ result.total_amount < result.count * (result.avg_amount + 1)
       /\ DOMAIN result.gst_dist = {Listing[k]["gst_rate"] : k \in 1..Len(Ledger)}
       /\ \A l \in DOMAIN result.gst_dist :
             result.gst_dist[l]
               = Cardinality({k \in 1..Len(Ledger) : Listing[k]["gst_rate"] = l})
       /\ SumCounts(result.gst_dist, DOMAIN result.gst_dist) = result.count

C8_Witness ==
    /\ call.op = "Reports & Analytics"
    /\ Len(Ledger) = 3
    /\ [k \in 1..3 |-> Listing[k]["gst_rate"]] = <<"5%", "5%", "18%">>
    /\ result.gst_dist = ("5%" :> 2) @@ ("18%" :> 1)
    /\ result.total_amount = Rupees(2000)
    /\ result.avg_amount = 66666

\* C9: whatever the text-generation call does, get_ai_insights returns a
\* string and raises nothing; when the call failed the string begins
\* "Error getting AI insights:".
C9_InsightsNeverRaise ==
    (call.op = "AI Insights" /\ call.clicked)
    => /\ exc = "none"
       /\ result.kind = "str"
       /\ call.outcome # "ok" => Head(result.text) = "Error getting AI insights: "

C9_Witness ==
    /\ call.op = "AI Insights"
    /\ call.clicked
    /\ call.outcome = "RateLimitError"
    /\ result = Str(<<"Error getting AI insights: ", "RateLimitError">>)

\* C10: over the runs of the script in one session the manager is built once,
\* a run that is not an "Add Invoice" click leaves the stored records as they
\* were, and a stored record stays in its place, unaltered.
C10_OnlyAddInvoiceChangesLedger ==
    [][/\ "invoice_manager" \in DOMAIN session_state
            => session_state'["invoice_manager"] = session_state["invoice_manager"]
       /\ ~(call'.op = "Invoice Management" /\ call'.clicked /\ call' # call)
            => Listing' = Listing
       /\ \A k \in 1..Len(Ledger) :
             Len(Ledger') >= k /\ Listing'[k] = Listing[k]]_vars

C10_Witness ==
    /\ call.op = "AI Insights"
    /\ call.clicked
    /\ Len(Ledger) = 2
    /\ Listing[1]["timestamp"] # Listing[2]["timestamp"]

====
